---------------------------- MODULE Spec2Model ----------------------------
(***************************************************************************)
(* Model of the character generator's auto-skinning                        *)
(* (SkeletonBuilder.autoSkin), of its plugin registry (PluginManager), of  *)
(* the lifecycle of one plugin instance (BasePlugin), of the editor's      *)
(* character store with its undo history (useCharacterStore), of the bone  *)
(* renaming of the Unity export (UnityIntegrationPlugin) and of the preset *)
(* library (PresetManager).                                                *)
(*                                                                         *)
(* Numbers.  Coordinates and distances are integers counted in units of    *)
(* 0.001 (the epsilon of autoSkin), so "distance + 0.001" is "d + 1".      *)
(* Weights are exact rationals <<numerator, denominator>> whose two parts  *)
(* are naturals of arbitrary size, written as sequences of base-BigBase    *)
(* digits, least significant first, <<>> being zero.  The input positions  *)
(* are chosen so that every vertex-to-bone distance is a whole number of   *)
(* these units and the square root is exact.                               *)
(***************************************************************************)
EXTENDS Integers, Sequences, FiniteSets, TLC

\* ------------------------------------------------------------------ bounds
MaxVerts == 2

MaxBones == 4

MaxK == 4

\* calls of PluginManager methods that may be in flight at once
MaxCalls == 2

\* calls of one plugin's methods that may be in flight at once
MaxLifeCalls == 2

\* edits of the character made on one store
MaxEdits == 2

\* nodes of a model handed to the Unity export, the humanoid skeleton aside
MaxNodes == 2

\* values Math.random() hands to the ids of presets and imported collections
MaxRandoms == 3

\* the last millisecond Date.now() reaches, counted from 0
MaxTime == 1

\* --------------------------------------------------------------- constants
\* one model length unit is 1/MilliPerUnit, the 0.001 of "distance + 0.001"
MilliPerUnit == 1000

\* the 0.001 added to a distance, in model length units
EPSILON == 1

\* range of a Uint16BufferAttribute element
Uint16Range == 65536

\* digit base of the arbitrary-size naturals
BigBase == 100 * 100

\* saveToHistory keeps the last 50 states
HistoryLimit == 50

\* the numbers of a character configuration are counted in tenths
Tenth == 10

\* ------------------------------------------------------------------ state
VARIABLES
    positions,            \* geometry attribute 'position': NoAttr or Attr(3, vertices)
    bones,                \* skeleton.bones, as their world positions
    skinIndex,            \* geometry attribute 'skinIndex': NoAttr or Attr(k, array)
    skinWeight,           \* geometry attribute 'skinWeight': NoAttr or Attr(k, array)
    maxInfluences,        \* the argument maxInfluences of the autoSkin call
    skinPc,               \* the autoSkin call: "call" before it runs, then "done"
    plugins,              \* PluginManager.plugins: plugin id -> plugin object
    initializationOrder,  \* PluginManager.initializationOrder: plugin ids
    calls,                \* the calls of the manager's async methods in flight
    state,                \* BasePlugin._state of one plugin instance
    lifeCalls,            \* the calls of that plugin's async methods in flight
    doInitCalls,          \* how many times that plugin's doInit has been invoked
    character,            \* store: the character being edited
    selectedPart,         \* store: the part selected for editing, or null
    history,              \* store: the characters saved for undo / redo
    historyIndex,         \* store: index into history, from 0, or -1
    nextId,               \* the ids uuidv4 has handed out so far, plus one
    edits,                \* how many edits of the character were made
    lastOp,               \* the store action run last and the character before it
    model,                \* Unity export: the nodes of character.model
    clone,                \* Unity export: the nodes of the prepared clone
    unityPc,              \* the prepareForUnity call: "call", then "done"
    presets,              \* PresetManager.presets: entries <<id, preset>>
    collections,          \* PresetManager.collections: entries <<id, collection>>
    storage,              \* localStorage: the two items the manager writes
    exported,             \* the JSON exportToJSON returned last, parsed
    now,                  \* Date.now()
    randoms               \* how many values Math.random() has handed out

skinVars == <<positions, bones, skinIndex, skinWeight, maxInfluences, skinPc>>

pluginVars == <<plugins, initializationOrder, calls>>

lifeVars == <<state, lifeCalls, doInitCalls>>

storeVars ==
    <<character, selectedPart, history, historyIndex, nextId, edits, lastOp>>

vars == <<positions, bones, skinIndex, skinWeight, maxInfluences, skinPc,
          plugins, initializationOrder, calls, state, lifeCalls, doInitCalls,
          character, selectedPart, history, historyIndex, nextId, edits,
          lastOp, model, clone, unityPc, presets, collections, storage,
          exported, now, randoms>>

presetVars == <<presets, collections, storage, exported, now, randoms>>

unityVars == <<model, clone, unityPc>>

\* what a step of autoSkin, of the manager, of a plugin leaves alone
notSkinVars == <<pluginVars, lifeVars, storeVars, unityVars, presetVars>>

notPluginVars == <<skinVars, lifeVars, storeVars, unityVars, presetVars>>

notLifeVars == <<skinVars, pluginVars, storeVars, unityVars, presetVars>>

notStoreVars == <<skinVars, pluginVars, lifeVars, unityVars, presetVars>>

notUnityVars == <<skinVars, pluginVars, lifeVars, storeVars, presetVars>>

notPresetVars == <<skinVars, pluginVars, lifeVars, storeVars, unityVars>>

\* getAttribute(name) of an attribute the geometry does not have
NoAttr == [defined |-> FALSE, itemSize |-> 0, array |-> <<>>]

\* a BufferAttribute of the geometry
Attr(itemSize, array) == [defined |-> TRUE, itemSize |-> itemSize, array |-> array]

\* ------------------------------------------------ arbitrary-size naturals
RECURSIVE BigOfInt(_)
BigOfInt(n) ==
    IF n = 0 THEN <<>> ELSE <<n % BigBase>> \o BigOfInt(n \div BigBase)

RECURSIVE BigAddC(_, _, _)
BigAddC(a, b, c) ==
    IF a = <<>> /\ b = <<>>
    THEN BigOfInt(c)
    ELSE LET x == IF a = <<>> THEN 0 ELSE Head(a)
             y == IF b = <<>> THEN 0 ELSE Head(b)
             s == x + y + c
         IN  <<s % BigBase>>
                 \o BigAddC(IF a = <<>> THEN <<>> ELSE Tail(a),
                            IF b = <<>> THEN <<>> ELSE Tail(b),
                            s \div BigBase)

BigAdd(a, b) == BigAddC(a, b, 0)

RECURSIVE BigMulDigit(_, _, _)
BigMulDigit(a, m, c) ==
    IF m = 0 THEN <<>>
    ELSE IF a = <<>> THEN BigOfInt(c)
    ELSE LET s == Head(a) * m + c
         IN  <<s % BigBase>> \o BigMulDigit(Tail(a), m, s \div BigBase)

BigShift(a) == IF a = <<>> THEN <<>> ELSE <<0>> \o a

RECURSIVE BigMul(_, _)
BigMul(a, b) ==
    IF a = <<>> \/ b = <<>> THEN <<>>
    ELSE BigAdd(BigMulDigit(a, Head(b), 0), BigShift(BigMul(a, Tail(b))))

RECURSIVE BigLessFrom(_, _, _)
BigLessFrom(a, b, i) ==
    IF i = 0 THEN FALSE
    ELSE IF a[i] # b[i] THEN a[i] < b[i]
    ELSE BigLessFrom(a, b, i - 1)

BigLess(a, b) ==
    IF Len(a) # Len(b) THEN Len(a) < Len(b) ELSE BigLessFrom(a, b, Len(a))

\* remainder of a by the digit m, from the most significant digit i down
RECURSIVE BigModDigitFrom(_, _, _, _)
BigModDigitFrom(a, m, i, r) ==
    IF i = 0 THEN r ELSE BigModDigitFrom(a, m, i - 1, (r * BigBase + a[i]) % m)

BigModDigit(a, m) == BigModDigitFrom(a, m, Len(a), 0)

\* quotient of a by the digit m, which divides it
RECURSIVE BigDivDigitFrom(_, _, _, _)
BigDivDigitFrom(a, m, i, r) ==
    IF i = 0 THEN <<>>
    ELSE BigDivDigitFrom(a, m, i - 1, (r * BigBase + a[i]) % m)
             \o <<(r * BigBase + a[i]) \div m>>

BigDivDigit(a, m) ==
    LET q == BigDivDigitFrom(a, m, Len(a), 0)
    IN  IF q # <<>> /\ q[Len(q)] = 0 THEN SubSeq(q, 1, Len(q) - 1) ELSE q

RECURSIVE Gcd(_, _)
Gcd(x, y) == IF y = 0 THEN x ELSE Gcd(y, x % y)

\* a common divisor of a and b: the greatest when one of them is one digit
BigCommonDivisor(a, b) ==
    IF Len(a) = 1 THEN Gcd(a[1], BigModDigit(b, a[1]))
    ELSE IF Len(b) = 1 THEN Gcd(b[1], BigModDigit(a, b[1]))
    ELSE 1

\* ------------------------------------------------------ exact rationals
Rat(n, d) == <<BigOfInt(n), BigOfInt(d)>>

RatZero == Rat(0, 1)

RatOne == Rat(1, 1)

RatAdd(p, q) ==
    IF p[2] = q[2]
    THEN <<BigAdd(p[1], q[1]), p[2]>>
    ELSE <<BigAdd(BigMul(p[1], q[2]), BigMul(q[1], p[2])), BigMul(p[2], q[2])>>

\* p / q, the divisors common to the numerators and to the denominators
\* cancelled
RatDiv(p, q) ==
    LET g == BigCommonDivisor(p[1], q[1])
        h == BigCommonDivisor(p[2], q[2])
    IN  <<BigMul(BigDivDigit(p[1], g), BigDivDigit(q[2], h)),
          BigMul(BigDivDigit(p[2], h), BigDivDigit(q[1], g))>>

RatEq(p, q) == BigMul(p[1], q[2]) = BigMul(q[1], p[2])

RatLess(p, q) == BigLess(BigMul(p[1], q[2]), BigMul(q[1], p[2]))

RatLeq(p, q) == ~RatLess(q, p)

RECURSIVE RatSum(_)
RatSum(s) == IF s = <<>> THEN RatZero ELSE RatAdd(Head(s), RatSum(Tail(s)))

\* --------------------------------------------------------------- geometry
Vec(x, y, z) == [x |-> x, y |-> y, z |-> z]

RECURSIVE SqrtSearch(_, _, _)
SqrtSearch(n, lo, hi) ==
    IF lo >= hi THEN lo
    ELSE LET mid == (lo + hi + 1) \div 2
         IN  IF mid * mid <= n THEN SqrtSearch(n, mid, hi)
                               ELSE SqrtSearch(n, lo, mid - 1)

Sqrt(n) == SqrtSearch(n, 0, IF n < 40000 THEN n ELSE 40000)

DistanceTo(v, b) ==
    LET dx == v.x - b.x
        dy == v.y - b.y
        dz == v.z - b.z
    IN  Sqrt(dx * dx + dy * dy + dz * dz)

\* positions the inputs are drawn from: all on one line, so that every
\* vertex-to-bone distance is a whole number of length units
VertexPositions ==
    {Vec(0 - MilliPerUnit, 0, 0), Vec(0, 0, 0), Vec(MilliPerUnit, 0, 0)}

BonePositions ==
    {Vec(x * MilliPerUnit, 0, 0) : x \in 0..3}

SeqsUpTo(S, n) == UNION {[1..m -> S] : m \in 0..n}

\* ------------------------------------------------------------- autoSkin
\* distances.push({index: j, distance: vertex.distanceTo(bonePos)}), j = 0..
Distances(v, bs) ==
    [j \in 1..Len(bs) |-> [index |-> j - 1, distance |-> DistanceTo(v, bs[j])]]

\* the comparator (a, b) => a.distance - b.distance
Compare(a, b) == a.distance - b.distance

\* mutant: a sort that is not stable, an element going before its equals
RECURSIVE InsertSortedBeforeEqual(_, _)
InsertSortedBeforeEqual(s, e) ==
    IF s = <<>> THEN <<e>>
    ELSE IF Compare(e, Head(s)) <= 0 THEN <<e>> \o s
    ELSE <<Head(s)>> \o InsertSortedBeforeEqual(Tail(s), e)

\* Array.prototype.sort is stable: an element goes after every element the
\* comparator does not put after it
RECURSIVE InsertSorted(_, _)
InsertSorted(s, e) ==
    IF s = <<>> THEN <<e>>
    ELSE IF Compare(e, Head(s)) < 0 THEN <<e>> \o s
    ELSE <<Head(s)>> \o InsertSorted(Tail(s), e)

RECURSIVE SortFrom(_, _)
SortFrom(done, rest) ==
    IF rest = <<>> THEN done
    ELSE SortFrom(InsertSorted(done, Head(rest)), Tail(rest))

Sort(s) == SortFrom(<<>>, s)

\* Array.prototype.slice(0, n)
Slice(s, n) == SubSeq(s, 1, IF n < Len(s) THEN n ELSE Len(s))

Closest(v, bs, k) == Slice(Sort(Distances(v, bs)), k)

\* mutant: the weight grows with the distance instead of with its inverse
RawWeightNotInverted(entry) == Rat(entry.distance + EPSILON, MilliPerUnit)

\* mutant: inverse of the squared distance
RawWeightInverseSquare(entry) ==
    Rat(MilliPerUnit * MilliPerUnit,
        entry.distance * entry.distance + EPSILON * MilliPerUnit)

\* const weight = 1 / (entry.distance + 0.001)
RawWeight(entry) == Rat(MilliPerUnit, entry.distance + EPSILON)

RawWeights(closest) == [j \in 1..Len(closest) |-> RawWeight(closest[j])]

\* mutant: totalWeight = weight instead of totalWeight += weight
TotalWeightLast(ws) == IF ws = <<>> THEN RatZero ELSE ws[Len(ws)]

\* let totalWeight = 0; for (...) totalWeight += weight
RECURSIVE TotalFrom(_, _)
TotalFrom(acc, ws) ==
    IF ws = <<>> THEN acc ELSE TotalFrom(RatAdd(acc, Head(ws)), Tail(ws))

TotalWeight(ws) == TotalFrom(RatZero, ws)

\* mutant: the free slots repeat the nearest bone instead of bone 0
InfluencesPadNearest(v, bs, k) ==
    LET closest == Closest(v, bs, k)
        weights == RawWeights(closest)
        totalWeight == TotalWeight(weights)
    IN  [j \in 1..k |->
            IF j <= Len(closest)
            THEN [index |-> closest[j].index,
                  weight |-> RatDiv(weights[j], totalWeight)]
            ELSE [index |-> IF closest = <<>> THEN 0 ELSE closest[1].index,
                  weight |-> RatZero]]

\* mutant: the weights are stored without dividing by their total
InfluencesNotNormalized(v, bs, k) ==
    LET closest == Closest(v, bs, k)
        weights == RawWeights(closest)
    IN  [j \in 1..k |->
            IF j <= Len(closest)
            THEN [index |-> closest[j].index, weight |-> weights[j]]
            ELSE [index |-> 0, weight |-> RatZero]]

\* one vertex's k influence slots: the normalized closest bones, then padding
Influences(v, bs, k) ==
    LET closest == Closest(v, bs, k)
        weights == RawWeights(closest)
        totalWeight == TotalWeight(weights)
    IN  [j \in 1..k |->
            IF j <= Len(closest)
            THEN [index |-> closest[j].index,
                  weight |-> RatDiv(weights[j], totalWeight)]
            ELSE [index |-> 0, weight |-> RatZero]]

RECURSIVE Flatten(_)
Flatten(ss) == IF ss = <<>> THEN <<>> ELSE Head(ss) \o Flatten(Tail(ss))

\* mutant: the entries are written slot after slot instead of vertex after
\* vertex
AllInfluencesSlotMajor(ps, bs, k) ==
    Flatten([j \in 1..k |-> [i \in 1..Len(ps) |-> Influences(ps[i], bs, k)[j]]])

\* the skinIndices / skinWeights pushes of all vertices, in order
AllInfluences(ps, bs, k) ==
    Flatten([i \in 1..Len(ps) |-> Influences(ps[i], bs, k)])

\* an element stored in a Uint16BufferAttribute
Uint16(x) == x % Uint16Range

\* new THREE.Uint16BufferAttribute(skinIndices, maxInfluences)
SkinIndexAttribute(all, k) ==
    Attr(k, [n \in 1..Len(all) |-> Uint16(all[n].index)])

\* new THREE.Float32BufferAttribute(skinWeights, maxInfluences)
SkinWeightAttribute(all, k) ==
    Attr(k, [n \in 1..Len(all) |-> all[n].weight])

\* autoSkin(geometry, skeleton, maxInfluences = k)
AutoSkin(k) ==
    /\ skinPc = "call"
    /\ skinPc' = "done"
    /\ IF ~positions.defined
       THEN UNCHANGED <<skinIndex, skinWeight>>
       ELSE LET all == AllInfluences(positions.array, bones, k)
            IN  /\ skinIndex' = SkinIndexAttribute(all, k)
                /\ skinWeight' = SkinWeightAttribute(all, k)
    /\ UNCHANGED <<positions, bones, maxInfluences>>

\* ---------------------------------------------------------- PluginManager
\* plugin objects: two HumanoidGenerator instances and a GLTFExporterPlugin
PluginObjects == {"humanoidA", "humanoidB", "gltf"}

\* plugin.id
IdOf(p) == IF p = "gltf" THEN "gltf-exporter" ELSE "humanoid-generator"

PluginIds == {IdOf(p) : p \in PluginObjects}

CallIds == 1..MaxCalls

None == "none"

\* what a lifecycle hook may reject with: an Error, or a value that is none
ThrownValues ==
    {[isError |-> TRUE, message |-> "boom", wrapped |-> FALSE],
     [isError |-> FALSE, message |-> "boom", wrapped |-> FALSE]}

NoValue == [isError |-> FALSE, message |-> "", wrapped |-> FALSE]

\* error instanceof Error ? error : new Error(String(error))
ToError(v) ==
    IF v.isError THEN v
    ELSE [isError |-> TRUE, message |-> v.message, wrapped |-> TRUE]

\* new PluginError(pluginId, code, message, originalCause)
PluginError(pluginId, code, cause) ==
    [status |-> "rejected", code |-> code, pluginId |-> pluginId,
     originalCause |-> cause]

Resolved ==
    [status |-> "resolved", code |-> None, pluginId |-> None,
     originalCause |-> NoValue]

NoResult ==
    [status |-> None, code |-> None, pluginId |-> None,
     originalCause |-> NoValue]

\* how the promise of a lifecycle hook settles
Fulfilled == [status |-> "resolved", value |-> NoValue]

Rejected(v) == [status |-> "rejected", value |-> v]

Unsettled == [status |-> None, value |-> NoValue]

Outcomes == {Fulfilled} \cup {Rejected(v) : v \in ThrownValues}

\* a call: the method, where it stands, its locals, the hook whose promise it
\* awaits, how the promise it awaited last settled, its own outcome, and, of a
\* register at its await, whether another call has been in flight meanwhile
Idle ==
    [op |-> None, pc |-> "idle", plugin |-> None, pluginId |-> None,
     awaits |-> None, settled |-> Unsettled, order |-> <<>>,
     result |-> NoResult, overlapped |-> FALSE]

InFlight(d) == calls[d].pc \notin {"idle", "done"}

\* call c begins as `rec`: it overlaps every call in flight
Begin(c, rec) ==
    [d \in CallIds |->
        IF d = c
        THEN [rec EXCEPT !.overlapped =
                  rec.pc = "awaitInit" /\ \E e \in CallIds \ {c} : InFlight(e)]
        ELSE IF calls[d].pc = "awaitInit"
             THEN [calls[d] EXCEPT !.overlapped = TRUE]
             ELSE calls[d]]

\* Map.prototype.has / set / delete
MapHas(m, key) == key \in DOMAIN m

MapSet(m, key, value) ==
    [x \in DOMAIN m \cup {key} |-> IF x = key THEN value ELSE m[x]]

MapDelete(m, key) == [x \in DOMAIN m \ {key} |-> m[x]]

EmptyMap == [x \in {} |-> None]

\* Array.prototype.filter(id => id !== pluginId)
RECURSIVE FilterOut(_, _)
FilterOut(s, id) ==
    IF s = <<>> THEN <<>>
    ELSE IF Head(s) = id THEN FilterOut(Tail(s), id)
    ELSE <<Head(s)>> \o FilterOut(Tail(s), id)

\* [...array].reverse()
Reverse(s) == [i \in 1..Len(s) |-> s[Len(s) + 1 - i]]

\* call c ends with `result`, the promise it awaited having settled as `o`
Finish(c, o, result) ==
    [calls EXCEPT ![c].pc = "done", ![c].awaits = None, ![c].settled = o,
                  ![c].result = result, ![c].overlapped = FALSE]

\* mutant: register without the has(plugin.id) check
RegisterNoCheck(c, p) ==
    /\ calls[c].pc = "idle"
    /\ calls' = Begin(c,
                [Idle EXCEPT !.op = "register", !.pc = "awaitInit", !.plugin = p,
                             !.pluginId = IdOf(p), !.awaits = "onInit"])
    /\ UNCHANGED <<plugins, initializationOrder>>

\* register(plugin), up to its await: plugin.onInit() is called unless the id
\* is registered
Register(c, p) ==
    /\ calls[c].pc = "idle"
    /\ IF MapHas(plugins, IdOf(p))
       THEN calls' = Begin(c,
                [Idle EXCEPT !.op = "register", !.pc = "done", !.plugin = p,
                             !.pluginId = IdOf(p),
                             !.result = PluginError(IdOf(p), "ALREADY_REGISTERED",
                                                    NoValue)])
       ELSE calls' = Begin(c,
                [Idle EXCEPT !.op = "register", !.pc = "awaitInit", !.plugin = p,
                             !.pluginId = IdOf(p), !.awaits = "onInit"])
    /\ UNCHANGED <<plugins, initializationOrder>>

\* mutant: the plugin is stored whether or not onInit succeeded
RegisterResumeAlwaysAdds(c, o) ==
    /\ calls[c].pc = "awaitInit"
    /\ plugins' = MapSet(plugins, calls[c].pluginId, calls[c].plugin)
    /\ initializationOrder' = Append(initializationOrder, calls[c].pluginId)
    /\ calls' = Finish(c, o, IF o.status = "resolved"
                             THEN Resolved
                             ELSE PluginError(calls[c].pluginId, "INIT_FAILED",
                                              ToError(o.value)))

\* register(plugin), from its await on, plugin.onInit() having settled as o
RegisterResume(c, o) ==
    /\ calls[c].pc = "awaitInit"
    /\ IF o.status = "resolved"
       THEN /\ plugins' = MapSet(plugins, calls[c].pluginId, calls[c].plugin)
            /\ initializationOrder' = Append(initializationOrder, calls[c].pluginId)
            /\ calls' = Finish(c, o, Resolved)
       ELSE /\ calls' = Finish(c, o, PluginError(calls[c].pluginId, "INIT_FAILED",
                                                 ToError(o.value)))
            /\ UNCHANGED <<plugins, initializationOrder>>

\* unregister(pluginId), up to its await
Unregister(c, id) ==
    /\ calls[c].pc = "idle"
    /\ IF ~MapHas(plugins, id)
       THEN calls' = Begin(c,
                [Idle EXCEPT !.op = "unregister", !.pc = "done", !.pluginId = id,
                             !.result = PluginError(id, "NOT_FOUND", NoValue)])
       ELSE calls' = Begin(c,
                [Idle EXCEPT !.op = "unregister", !.pc = "awaitDestroy",
                             !.plugin = plugins[id], !.pluginId = id,
                             !.awaits = "onDestroy"])
    /\ UNCHANGED <<plugins, initializationOrder>>

\* mutant: the catch of unregister leaves the plugin in the registry
UnregisterResumeKeepsOnReject(c, o) ==
    /\ calls[c].pc = "awaitDestroy"
    /\ IF o.status = "resolved"
       THEN /\ plugins' = MapDelete(plugins, calls[c].pluginId)
            /\ initializationOrder' =
                   FilterOut(initializationOrder, calls[c].pluginId)
       ELSE UNCHANGED <<plugins, initializationOrder>>
    /\ calls' = Finish(c, o, Resolved)

\* unregister(pluginId), from its await on, plugin.onDestroy() having settled
\* as o: the try and the catch both remove the plugin
UnregisterResume(c, o) ==
    /\ calls[c].pc = "awaitDestroy"
    /\ plugins' = MapDelete(plugins, calls[c].pluginId)
    /\ initializationOrder' = FilterOut(initializationOrder, calls[c].pluginId)
    /\ calls' = Finish(c, o, Resolved)

\* destroyAll(): one turn of its loop over `rest`, up to the await of
\* this.unregister(pluginId), or the end of the method when nothing is left;
\* `cs` holds the calls as the turn finds them
DestroyAllTurn(c, rest, cs) ==
    IF rest = <<>>
    THEN /\ plugins' = EmptyMap
         /\ initializationOrder' = <<>>
         /\ calls' = [cs EXCEPT ![c].pc = "done", ![c].plugin = None,
                                ![c].pluginId = None, ![c].awaits = None,
                                ![c].settled = Unsettled,
                                ![c].order = <<>>, ![c].result = Resolved]
    ELSE /\ IF MapHas(plugins, Head(rest))
            THEN calls' = [cs EXCEPT ![c].pc = "awaitDestroyOf",
                                    ![c].plugin = plugins[Head(rest)],
                                    ![c].pluginId = Head(rest),
                                    ![c].awaits = "onDestroy",
                                    ![c].settled = Unsettled,
                                    ![c].order = rest]
            ELSE calls' = [cs EXCEPT ![c].pc = "awaitUnregister",
                                    ![c].plugin = None,
                                    ![c].pluginId = Head(rest),
                                    ![c].awaits = None,
                                    ![c].settled = Unsettled,
                                    ![c].order = rest]
         /\ UNCHANGED <<plugins, initializationOrder>>

\* mutant: destroyAll walks the initialization order front to back
DestroyAllForward(c) ==
    /\ calls[c].pc = "idle"
    /\ DestroyAllTurn(c, initializationOrder,
                      Begin(c, [Idle EXCEPT !.op = "destroyAll"]))

\* destroyAll(), up to its first await
DestroyAll(c) ==
    /\ calls[c].pc = "idle"
    /\ DestroyAllTurn(c, Reverse(initializationOrder),
                      Begin(c, [Idle EXCEPT !.op = "destroyAll"]))

\* the unregister that destroyAll awaits, from its own await on,
\* plugin.onDestroy() having settled as o
DestroyAllUnregisterResume(c, o) ==
    /\ calls[c].pc = "awaitDestroyOf"
    /\ plugins' = MapDelete(plugins, calls[c].pluginId)
    /\ initializationOrder' = FilterOut(initializationOrder, calls[c].pluginId)
    /\ o \in Outcomes
    /\ calls' = [calls EXCEPT ![c].pc = "awaitUnregister", ![c].plugin = None,
                              ![c].awaits = None]

\* destroyAll(), from the await of this.unregister(pluginId) on
DestroyAllResume(c) ==
    /\ calls[c].pc = "awaitUnregister"
    /\ DestroyAllTurn(c, Tail(calls[c].order), calls)

\* the caller takes the outcome of a finished call
Return(c) ==
    /\ calls[c].pc = "done"
    /\ calls' = [calls EXCEPT ![c] = Idle]
    /\ UNCHANGED <<plugins, initializationOrder>>

\* ------------------------------------------------ BasePlugin lifecycle
\* PluginState
PluginStates ==
    {"uninitialized", "initializing", "ready", "error", "destroyed"}

LifeCallIds == 1..MaxLifeCalls

\* the methods that begin with this.assertReady()
GatedMethods == {"generate", "export", "sync", "exportFor"}

\* new Error(`Plugin ${this.id} is not ready (state: ${this._state})`)
NotReadyError(st) ==
    [isError |-> TRUE, message |-> "not ready: " \o st, wrapped |-> FALSE]

\* a call of a plugin method: the method, where it stands, how the promise
\* it awaited settled, its own outcome
LifeIdle ==
    [op |-> None, pc |-> "idle", settled |-> Unsettled, result |-> Unsettled]

\* call c of method op ends with `result`, what it awaited having settled as o
LifeDone(c, op, o, result) ==
    [lifeCalls EXCEPT ![c] = [op |-> op, pc |-> "done", settled |-> o,
                              result |-> result]]

LifeAwait(c, op, pc) ==
    [lifeCalls EXCEPT ![c] = [op |-> op, pc |-> pc, settled |-> Unsettled,
                              result |-> Unsettled]]

\* mutant: onInit without the check of the state
OnInitNoGuard(c) ==
    /\ lifeCalls[c].pc = "idle"
    /\ doInitCalls < MaxLifeCalls + 1
    /\ state' = "initializing"
    /\ doInitCalls' = doInitCalls + 1
    /\ lifeCalls' = LifeAwait(c, "onInit", "awaitDoInit")

\* onInit(), up to its await: returns at once unless the plugin is
\* uninitialized, else sets 'initializing' and invokes doInit
OnInit(c) ==
    /\ lifeCalls[c].pc = "idle"
    /\ IF state # "uninitialized"
       THEN /\ lifeCalls' = LifeDone(c, "onInit", Unsettled, Fulfilled)
            /\ UNCHANGED <<state, doInitCalls>>
       ELSE /\ state' = "initializing"
            /\ doInitCalls' = doInitCalls + 1
            /\ lifeCalls' = LifeAwait(c, "onInit", "awaitDoInit")

\* onInit(), from its await on, doInit() having settled as o
OnInitResume(c, o) ==
    /\ lifeCalls[c].pc = "awaitDoInit"
    /\ IF o.status = "resolved"
       THEN /\ state' = "ready"
            /\ lifeCalls' = LifeDone(c, "onInit", o, Fulfilled)
       ELSE /\ state' = "error"
            /\ lifeCalls' = LifeDone(c, "onInit", o, o)
    /\ UNCHANGED doInitCalls

\* onDestroy(), up to its await: returns at once when the plugin is
\* destroyed, else invokes doDestroy
OnDestroy(c) ==
    /\ lifeCalls[c].pc = "idle"
    /\ IF state = "destroyed"
       THEN lifeCalls' = LifeDone(c, "onDestroy", Unsettled, Fulfilled)
       ELSE lifeCalls' = LifeAwait(c, "onDestroy", "awaitDoDestroy")
    /\ UNCHANGED <<state, doInitCalls>>

\* mutant: onDestroy sets 'destroyed' after the await instead of in a finally
OnDestroyResumeNoFinally(c, o) ==
    /\ lifeCalls[c].pc = "awaitDoDestroy"
    /\ IF o.status = "resolved"
       THEN state' = "destroyed"
       ELSE UNCHANGED state
    /\ lifeCalls' = LifeDone(c, "onDestroy", o, o)
    /\ UNCHANGED doInitCalls

\* onDestroy(), from its await on, doDestroy() having settled as o: the
\* finally sets 'destroyed', a rejection goes on to the caller
OnDestroyResume(c, o) ==
    /\ lifeCalls[c].pc = "awaitDoDestroy"
    /\ state' = "destroyed"
    /\ lifeCalls' = LifeDone(c, "onDestroy", o, o)
    /\ UNCHANGED doInitCalls

\* assertReady()
AssertReadyThrows == state # "ready"

\* mutant: assertReady lets an initializing plugin pass
GatedWhileInitializing(c, m) ==
    /\ lifeCalls[c].pc = "idle"
    /\ IF state \notin {"ready", "initializing"}
       THEN lifeCalls' = LifeDone(c, m, Unsettled,
                                  Rejected(NotReadyError(state)))
       ELSE lifeCalls' = LifeAwait(c, m, "working")
    /\ UNCHANGED <<state, doInitCalls>>

\* generate / export / sync / exportFor*, up to the work behind assertReady
Gated(c, m) ==
    /\ lifeCalls[c].pc = "idle"
    /\ IF AssertReadyThrows
       THEN lifeCalls' = LifeDone(c, m, Unsettled,
                                  Rejected(NotReadyError(state)))
       ELSE lifeCalls' = LifeAwait(c, m, "working")
    /\ UNCHANGED <<state, doInitCalls>>

\* the work of a gated method ends: a result, or a failure of its own
GatedResume(c, o) ==
    /\ lifeCalls[c].pc = "working"
    /\ lifeCalls' = LifeDone(c, lifeCalls[c].op, o, o)
    /\ UNCHANGED <<state, doInitCalls>>

\* the caller takes the outcome of a finished call
LifeReturn(c) ==
    /\ lifeCalls[c].pc = "done"
    /\ lifeCalls' = [lifeCalls EXCEPT ![c] = LifeIdle]
    /\ UNCHANGED <<state, doInitCalls>>

LifeEmpty ==
    /\ state = "uninitialized"
    /\ lifeCalls = [c \in LifeCallIds |-> LifeIdle]
    /\ doInitCalls = 0

\* ---------------------------------------------------- character store
\* BodyPart
BodyParts == {"head", "torso", "leftArm", "rightArm", "leftLeg", "rightLeg"}

\* CharacterStyle
CharacterStyles == {"robot", "humanoid", "alien", "cyborg"}

\* the arguments the edits are tried with
EditedParts == {"head", "torso"}

EditedAxes == {"x", "y"}

InputColors == {"#00C49A", "#ff0000"}

InputNumbers == {0, 5}

InputStyles == {"robot", "alien"}

InputNames == {"New Character", "Robo"}

AnimationTypes == {"idle", "rotate", "bounce"}

\* DEFAULT_PART_CONFIG, with id and type
DefaultPart(type, color) ==
    [id |-> type, type |-> type, style |-> "default", color |-> color,
     metalness |-> 8, roughness |-> 2,
     scale |-> [x |-> Tenth, y |-> Tenth, z |-> Tenth],
     emission |-> "#000000", emissionIntensity |-> 0]

\* DEFAULT_CHARACTER_CONFIG
DefaultParts ==
    [p \in BodyParts |->
        DefaultPart(p, IF p \in {"torso", "leftLeg", "rightLeg"}
                       THEN "#1a1a25" ELSE "#00C49A")]

\* createNewCharacter(), uuidv4() returning `id`
CreateNewCharacter(id) ==
    [id |-> id, name |-> "New Character", style |-> "robot",
     parts |-> DefaultParts,
     animation |-> [idle |-> TRUE, rotate |-> FALSE, bounce |-> FALSE],
     environment |-> [backgroundColor |-> "#0a0a0f", ambientIntensity |-> 3,
                      spotlightColor |-> "#ffffff",
                      spotlightIntensity |-> Tenth]]

\* configurations handed to setCharacter: a preset of each input style
InputConfigs ==
    {[CreateNewCharacter(0) EXCEPT !.style = st, !.name = "Preset"] :
        st \in InputStyles}

\* { ...{} }: what a spread of an absent history entry yields
EmptyObject == [id |-> None]

\* { ...a, ...b }
Spread(a, b) ==
    [f \in DOMAIN a \cup DOMAIN b |-> IF f \in DOMAIN b THEN b[f] ELSE a[f]]

\* array.slice(-n)
SliceLast(s, n) ==
    IF Len(s) <= n THEN s ELSE SubSeq(s, Len(s) - n + 1, Len(s))

\* array[i], i counted from 0, spread into a new object
SpreadAt(s, i) == IF i + 1 \in DOMAIN s THEN s[i + 1] ELSE EmptyObject

\* history.slice(0, historyIndex + 1) with the character pushed
NewHistory == Append(SubSeq(history, 1, historyIndex + 1), character)

\* saveToHistory()
SaveToHistory ==
    /\ history' = SliceLast(NewHistory, HistoryLimit)
    /\ historyIndex' = Len(NewHistory) - 1

\* an edit of the character is counted and remembered as the last action
Edited(op) ==
    /\ edits < MaxEdits
    /\ edits' = edits + 1
    /\ lastOp' = [op |-> op, before |-> character]

\* updatePart(part, updates)
UpdatePart(part, updates) ==
    /\ SaveToHistory
    /\ character' = [character EXCEPT
                        !.parts[part] = Spread(character.parts[part], updates)]
    /\ UNCHANGED <<selectedPart, nextId>>

\* setPartColor(part, color)
SetPartColor(part, color) ==
    /\ Edited("setPartColor")
    /\ UpdatePart(part, [color |-> color])

\* setPartScale(part, axis, value)
SetPartScale(part, axis, value) ==
    /\ Edited("setPartScale")
    /\ UpdatePart(part,
           [scale |-> Spread(character.parts[part].scale,
                             [a \in {axis} |-> value])])

\* setPartMaterial(part, metalness, roughness)
SetPartMaterial(part, metalness, roughness) ==
    /\ Edited("setPartMaterial")
    /\ UpdatePart(part, [metalness |-> metalness, roughness |-> roughness])

\* setPartEmission(part, color, intensity)
SetPartEmission(part, color, intensity) ==
    /\ Edited("setPartEmission")
    /\ UpdatePart(part, [emission |-> color, emissionIntensity |-> intensity])

\* updatePart(part, { style }) called on its own
UpdatePartStyle(part, style) ==
    /\ Edited("updatePart")
    /\ UpdatePart(part, [style |-> style])

\* setCharacterStyle(style)
SetCharacterStyle(style) ==
    /\ Edited("setCharacterStyle")
    /\ SaveToHistory
    /\ character' = [character EXCEPT !.style = style]
    /\ UNCHANGED <<selectedPart, nextId>>

\* setCharacter(config)
SetCharacter(config) ==
    /\ Edited("setCharacter")
    /\ SaveToHistory
    /\ character' = config
    /\ UNCHANGED <<selectedPart, nextId>>

\* resetCharacter()
ResetCharacter ==
    /\ Edited("resetCharacter")
    /\ SaveToHistory
    /\ character' = CreateNewCharacter(nextId)
    /\ nextId' = nextId + 1
    /\ selectedPart' = None

\* setSelectedPart(part)
SetSelectedPart(part) ==
    /\ selectedPart' = part
    /\ lastOp' = [op |-> "setSelectedPart", before |-> character]
    /\ UNCHANGED <<character, history, historyIndex, nextId, edits>>

\* setCharacterName(name): no history
SetCharacterName(name) ==
    /\ Edited("setCharacterName")
    /\ character' = [character EXCEPT !.name = name]
    /\ UNCHANGED <<selectedPart, history, historyIndex, nextId>>

\* toggleAnimation(type): no history
ToggleAnimation(type) ==
    /\ Edited("toggleAnimation")
    /\ character' = [character EXCEPT
                        !.animation[type] = ~character.animation[type]]
    /\ UNCHANGED <<selectedPart, history, historyIndex, nextId>>

\* setBackgroundColor(color): no history; setSpotlightColor is alike
SetBackgroundColor(color) ==
    /\ Edited("setBackgroundColor")
    /\ character' = [character EXCEPT !.environment.backgroundColor = color]
    /\ UNCHANGED <<selectedPart, history, historyIndex, nextId>>

\* setAmbientIntensity(intensity): no history; setSpotlightIntensity is alike
SetAmbientIntensity(intensity) ==
    /\ Edited("setAmbientIntensity")
    /\ character' = [character EXCEPT
                        !.environment.ambientIntensity = intensity]
    /\ UNCHANGED <<selectedPart, history, historyIndex, nextId>>

\* undo()
Undo ==
    /\ lastOp' = [op |-> "undo", before |-> character]
    /\ IF historyIndex <= 0
       THEN UNCHANGED <<character, historyIndex>>
       ELSE /\ character' = SpreadAt(history, historyIndex - 1)
            /\ historyIndex' = historyIndex - 1
    /\ UNCHANGED <<selectedPart, history, nextId, edits>>

\* redo()
Redo ==
    /\ lastOp' = [op |-> "redo", before |-> character]
    /\ IF historyIndex >= Len(history) - 1
       THEN UNCHANGED <<character, historyIndex>>
       ELSE /\ character' = SpreadAt(history, historyIndex + 1)
            /\ historyIndex' = historyIndex + 1
    /\ UNCHANGED <<selectedPart, history, nextId, edits>>

\* the store as create() builds it
StoreEmpty ==
    /\ character = CreateNewCharacter(1)
    /\ selectedPart = None
    /\ history = <<>>
    /\ historyIndex = 0 - 1
    /\ nextId = 2
    /\ edits = 0
    /\ lastOp = [op |-> None, before |-> CreateNewCharacter(1)]

\* --------------------------------------------------------- Unity export
\* HUMANOID_BONES, in the order getHumanoidBoneDefinitions lists the bones
HUMANOID_BONES ==
    <<"root", "hips", "spine", "spine1", "spine2", "neck", "head",
      "leftShoulder", "leftArm", "leftForeArm", "leftHand",
      "rightShoulder", "rightArm", "rightForeArm", "rightHand",
      "leftUpLeg", "leftLeg", "leftFoot", "leftToeBase",
      "rightUpLeg", "rightLeg", "rightFoot", "rightToeBase">>

\* UNITY_BONE_MAPPING
UNITY_BONE_MAPPING ==
    [Hips |-> "Hips", Spine |-> "Spine", Spine1 |-> "Chest",
     Spine2 |-> "UpperChest", Neck |-> "Neck", Head |-> "Head",
     LeftShoulder |-> "LeftShoulder", LeftArm |-> "LeftUpperArm",
     LeftForeArm |-> "LeftLowerArm", LeftHand |-> "LeftHand",
     RightShoulder |-> "RightShoulder", RightArm |-> "RightUpperArm",
     RightForeArm |-> "RightLowerArm", RightHand |-> "RightHand",
     LeftUpLeg |-> "LeftUpperLeg", LeftLeg |-> "LeftLowerLeg",
     LeftFoot |-> "LeftFoot", LeftToeBase |-> "LeftToes",
     RightUpLeg |-> "RightUpperLeg", RightLeg |-> "RightLowerLeg",
     RightFoot |-> "RightFoot", RightToeBase |-> "RightToes"]

\* a node of an Object3D tree: a THREE.Bone or another object, and its name
Node(isBone, name) == [isBone |-> isBone, name |-> name]

\* the bones of the skeleton buildHumanoid builds, as traverse meets them
HumanoidSkeleton ==
    [i \in 1..Len(HUMANOID_BONES) |-> Node(TRUE, HUMANOID_BONES[i])]

\* names of the other nodes a model is tried with
InputNodeNames == {"spine1", "Spine1", "LeftArm", "root", "Body"}

InputNodes == {Node(b, n) : b \in BOOLEAN, n \in InputNodeNames}

\* UNITY_BONE_MAPPING[child.name], taken when it is there
UnityName(name) ==
    IF name \in DOMAIN UNITY_BONE_MAPPING
    THEN UNITY_BONE_MAPPING[name]
    ELSE name

\* remapBonesForUnity(object): traverse renames the bones the mapping knows
RemapBonesForUnity(object) ==
    [i \in 1..Len(object) |->
        IF object[i].isBone
        THEN Node(TRUE, UnityName(object[i].name))
        ELSE object[i]]

\* prepareForUnity(model), as far as the names of the nodes go: the model is
\* cloned and the bones of the clone are renamed
PrepareForUnity ==
    /\ unityPc = "call"
    /\ unityPc' = "done"
    /\ clone' = RemapBonesForUnity(model)
    /\ UNCHANGED model

UnityEmpty ==
    /\ model = <<>>
    /\ clone = <<>>
    /\ unityPc = "done"

\* ------------------------------------------------------- PresetManager
\* a Map as its entries <<key, value>> in insertion order
EntryKeys(m) == {m[i][1] : i \in 1..Len(m)}

EntryHas(m, key) == key \in EntryKeys(m)

\* Map.prototype.get of a key the map has
EntryGet(m, key) == m[CHOOSE i \in 1..Len(m) : m[i][1] = key][2]

\* Map.prototype.set: a key the map has keeps its place
EntrySet(m, key, value) ==
    IF EntryHas(m, key)
    THEN [i \in 1..Len(m) |-> IF m[i][1] = key THEN <<key, value>> ELSE m[i]]
    ELSE Append(m, <<key, value>>)

\* Map.prototype.delete
EntryDelete(m, key) == SelectSeq(m, LAMBDA e : e[1] # key)

\* Array.from(map.values())
EntryValues(m) == [i \in 1..Len(m) |-> m[i][2]]

\* `preset-${Date.now()}-${Math.random().toString(36).substring(2, 8)}`,
\* Math.random() handing out its r-th value
PresetId(t, r) == <<"preset", t, r>>

\* `collection-${Date.now()}`
CollectionId(t) == <<"collection", t>>

\* `collection-${Date.now()}-${Math.random().toString(36).substring(2, 8)}`
ImportedCollectionId(t, r) == <<"collection", t, r>>

\* names the presets and collections are created with
InputPresetNames == {"My Hero"}

InputCollectionNames == {"Favorites"}

\* localStorage without the two items
NoItems == [saved |-> FALSE, presets |-> <<>>, collections |-> <<>>]

\* saveToStorage() of the maps ps and cs
Saved(ps, cs) == [saved |-> TRUE, presets |-> ps, collections |-> cs]

\* no JSON has been exported
NoExport == [made |-> FALSE, presets |-> <<>>, collections |-> <<>>]

\* a millisecond passes
Tick ==
    /\ now < MaxTime
    /\ now' = now + 1
    /\ UNCHANGED <<presets, collections, storage, exported, randoms>>

\* createPreset(character, name, description)
CreatePreset(name) ==
    /\ randoms < MaxRandoms
    /\ LET id == PresetId(now, randoms + 1)
       IN  /\ presets' = EntrySet(presets, id, [id |-> id, name |-> name])
           /\ storage' = Saved(presets', collections)
    /\ randoms' = randoms + 1
    /\ UNCHANGED <<collections, exported, now>>

\* collection.presets.filter((pid) => pid !== id) for every collection
WithoutPreset(cs, id) ==
    [i \in 1..Len(cs) |->
        <<cs[i][1],
          [cs[i][2] EXCEPT !.presets = SelectSeq(@, LAMBDA pid : pid # id)]>>]

\* deletePreset(id)
DeletePreset(id) ==
    /\ IF EntryHas(presets, id)
       THEN /\ presets' = EntryDelete(presets, id)
            /\ collections' = WithoutPreset(collections, id)
            /\ storage' = Saved(presets', collections')
       ELSE UNCHANGED <<presets, collections, storage>>
    /\ UNCHANGED <<exported, now, randoms>>

\* createCollection(name)
CreateCollection(name) ==
    /\ LET id == CollectionId(now)
       IN  collections' = EntrySet(collections, id,
                              [id |-> id, name |-> name, presets |-> <<>>])
    /\ storage' = Saved(presets, collections')
    /\ UNCHANGED <<presets, exported, now, randoms>>

\* array.includes(x)
Includes(s, x) == \E i \in 1..Len(s) : s[i] = x

\* addToCollection(collectionId, presetId)
AddToCollection(collectionId, presetId) ==
    /\ IF ~EntryHas(collections, collectionId) \/ ~EntryHas(presets, presetId)
       THEN UNCHANGED <<collections, storage>>
       ELSE LET collection == EntryGet(collections, collectionId)
            IN  IF Includes(collection.presets, presetId)
                THEN UNCHANGED <<collections, storage>>
                ELSE /\ collections' =
                            EntrySet(collections, collectionId,
                                [collection EXCEPT
                                    !.presets = Append(@, presetId)])
                     /\ storage' = Saved(presets, collections')
    /\ UNCHANGED <<presets, exported, now, randoms>>

\* exportToJSON(), the JSON kept as the data it parses to
ExportToJSON ==
    /\ exported' = [made |-> TRUE, presets |-> EntryValues(presets),
                    collections |-> EntryValues(collections)]
    /\ UNCHANGED <<presets, collections, storage, now, randoms>>

\* the loop over data.presets: each preset is stored under a new id, the
\* r-th value of Math.random() and those after it being handed out
RECURSIVE ImportPresets(_, _, _)
ImportPresets(ps, data, r) ==
    IF data = <<>> THEN ps
    ELSE LET id == PresetId(now, r)
         IN  ImportPresets(EntrySet(ps, id, [Head(data) EXCEPT !.id = id]),
                           Tail(data), r + 1)

\* the loop over data.collections: each collection is stored under a new id,
\* its list of preset ids as it is in the JSON
RECURSIVE ImportCollections(_, _, _)
ImportCollections(cs, data, r) ==
    IF data = <<>> THEN cs
    ELSE LET id == ImportedCollectionId(now, r)
         IN  ImportCollections(EntrySet(cs, id, [Head(data) EXCEPT !.id = id]),
                               Tail(data), r + 1)

\* importFromJSON(json), json being what exportToJSON returned last
ImportFromJSON ==
    /\ exported.made
    /\ randoms + Len(exported.presets) + Len(exported.collections) <= MaxRandoms
    /\ presets' = ImportPresets(presets, exported.presets, randoms + 1)
    /\ collections' =
           ImportCollections(collections, exported.collections,
                             randoms + Len(exported.presets) + 1)
    /\ randoms' = randoms + Len(exported.presets) + Len(exported.collections)
    /\ storage' = Saved(presets', collections')
    /\ UNCHANGED <<exported, now>>

\* clearAll()
ClearAll ==
    /\ presets' = <<>>
    /\ collections' = <<>>
    /\ storage' = NoItems
    /\ UNCHANGED <<exported, now, randoms>>

\* a manager constructed over an empty localStorage
PresetsEmpty ==
    /\ presets = <<>>
    /\ collections = <<>>
    /\ storage = NoItems
    /\ exported = NoExport
    /\ now = 0
    /\ randoms = 0

PluginsEmpty ==
    /\ plugins = EmptyMap
    /\ initializationOrder = <<>>
    /\ calls = [c \in CallIds |-> Idle]

SkinEmpty ==
    /\ positions = NoAttr
    /\ bones = <<>>
    /\ skinIndex = NoAttr
    /\ skinWeight = NoAttr
    /\ maxInfluences = 1
    /\ skinPc = "done"

SkinInit ==
    /\ positions \in {NoAttr}
                       \cup {Attr(3, ps) : ps \in SeqsUpTo(VertexPositions, MaxVerts)}
    /\ bones \in SeqsUpTo(BonePositions, MaxBones)
    /\ skinIndex = NoAttr
    /\ skinWeight = NoAttr
    /\ maxInfluences \in 1..MaxK
    /\ skinPc = "call"
    /\ PluginsEmpty
    /\ LifeEmpty
    /\ StoreEmpty
    /\ UnityEmpty
    /\ PresetsEmpty

SkinNext == AutoSkin(maxInfluences) /\ UNCHANGED notSkinVars

SkinSpec == SkinInit /\ [][SkinNext]_vars

PluginInit ==
    /\ PluginsEmpty /\ SkinEmpty /\ LifeEmpty /\ StoreEmpty /\ UnityEmpty
    /\ PresetsEmpty

PluginNext ==
    \E c \in CallIds :
        \/ \E p \in PluginObjects : Register(c, p) /\ UNCHANGED notPluginVars
        \/ \E o \in Outcomes : RegisterResume(c, o) /\ UNCHANGED notPluginVars
        \/ \E id \in PluginIds : Unregister(c, id) /\ UNCHANGED notPluginVars
        \/ \E o \in Outcomes : UnregisterResume(c, o) /\ UNCHANGED notPluginVars
        \/ DestroyAll(c) /\ UNCHANGED notPluginVars
        \/ \E o \in Outcomes : DestroyAllUnregisterResume(c, o) /\ UNCHANGED notPluginVars
        \/ DestroyAllResume(c) /\ UNCHANGED notPluginVars
        \/ Return(c) /\ UNCHANGED notPluginVars

PluginSpec == PluginInit /\ [][PluginNext]_vars

LifeInit ==
    /\ LifeEmpty /\ PluginsEmpty /\ SkinEmpty /\ StoreEmpty /\ UnityEmpty
    /\ PresetsEmpty

LifeNext ==
    \E c \in LifeCallIds :
        \/ OnInit(c) /\ UNCHANGED notLifeVars
        \/ \E o \in Outcomes : OnInitResume(c, o) /\ UNCHANGED notLifeVars
        \/ OnDestroy(c) /\ UNCHANGED notLifeVars
        \/ \E o \in Outcomes : OnDestroyResume(c, o) /\ UNCHANGED notLifeVars
        \/ \E m \in GatedMethods : Gated(c, m) /\ UNCHANGED notLifeVars
        \/ \E o \in Outcomes : GatedResume(c, o) /\ UNCHANGED notLifeVars
        \/ LifeReturn(c) /\ UNCHANGED notLifeVars

LifeSpec == LifeInit /\ [][LifeNext]_vars

StoreInit ==
    /\ StoreEmpty /\ LifeEmpty /\ PluginsEmpty /\ SkinEmpty /\ UnityEmpty
    /\ PresetsEmpty

StoreNext ==
    \/ \E p \in EditedParts, col \in InputColors :
           SetPartColor(p, col) /\ UNCHANGED notStoreVars
    \/ \E p \in EditedParts, a \in EditedAxes, v \in InputNumbers :
           SetPartScale(p, a, v) /\ UNCHANGED notStoreVars
    \/ \E p \in EditedParts, v \in InputNumbers :
           SetPartMaterial(p, v, Tenth - v) /\ UNCHANGED notStoreVars
    \/ \E p \in EditedParts, col \in InputColors, v \in InputNumbers :
           SetPartEmission(p, col, v) /\ UNCHANGED notStoreVars
    \/ \E p \in EditedParts, st \in InputStyles :
           UpdatePartStyle(p, st) /\ UNCHANGED notStoreVars
    \/ \E st \in InputStyles : SetCharacterStyle(st) /\ UNCHANGED notStoreVars
    \/ \E cfg \in InputConfigs : SetCharacter(cfg) /\ UNCHANGED notStoreVars
    \/ ResetCharacter /\ UNCHANGED notStoreVars
    \/ \E p \in EditedParts \cup {None} :
           SetSelectedPart(p) /\ UNCHANGED notStoreVars
    \/ \E n \in InputNames : SetCharacterName(n) /\ UNCHANGED notStoreVars
    \/ \E t \in AnimationTypes : ToggleAnimation(t) /\ UNCHANGED notStoreVars
    \/ \E col \in InputColors :
           SetBackgroundColor(col) /\ UNCHANGED notStoreVars
    \/ \E v \in InputNumbers : SetAmbientIntensity(v) /\ UNCHANGED notStoreVars
    \/ Undo /\ UNCHANGED notStoreVars
    \/ Redo /\ UNCHANGED notStoreVars

StoreSpec == StoreInit /\ [][StoreNext]_vars

UnityInit ==
    /\ model \in {HumanoidSkeleton}
                  \cup {HumanoidSkeleton \o ns : ns \in SeqsUpTo(InputNodes, MaxNodes)}
                  \cup SeqsUpTo(InputNodes, MaxNodes)
    /\ clone = <<>>
    /\ unityPc = "call"
    /\ PresetsEmpty
    /\ StoreEmpty
    /\ LifeEmpty
    /\ PluginsEmpty
    /\ SkinEmpty

UnityNext == PrepareForUnity /\ UNCHANGED notUnityVars

UnitySpec == UnityInit /\ [][UnityNext]_vars

PresetInit ==
    /\ PresetsEmpty /\ UnityEmpty /\ StoreEmpty /\ LifeEmpty /\ PluginsEmpty
    /\ SkinEmpty

PresetNext ==
    \/ Tick /\ UNCHANGED notPresetVars
    \/ \E n \in InputPresetNames : CreatePreset(n) /\ UNCHANGED notPresetVars
    \/ \E t \in 0..MaxTime, r \in 1..MaxRandoms :
           DeletePreset(PresetId(t, r)) /\ UNCHANGED notPresetVars
    \/ \E n \in InputCollectionNames :
           CreateCollection(n) /\ UNCHANGED notPresetVars
    \/ \E c \in EntryKeys(collections) \cup {CollectionId(MaxTime)},
          t \in 0..MaxTime, r \in 1..MaxRandoms :
           AddToCollection(c, PresetId(t, r)) /\ UNCHANGED notPresetVars
    \/ ExportToJSON /\ UNCHANGED notPresetVars
    \/ ImportFromJSON /\ UNCHANGED notPresetVars
    \/ ClearAll /\ UNCHANGED notPresetVars

PresetSpec == PresetInit /\ [][PresetNext]_vars

\* ------------------------------------------- reading a skinned geometry
Skinned == skinIndex.defined /\ skinWeight.defined

K == skinIndex.itemSize

VertexCount == Len(positions.array)

BoneCount == Len(bones)

Vertices == 1..VertexCount

\* number of influence slots of a vertex that hold a selected bone
Selected == IF K < BoneCount THEN K ELSE BoneCount

SlotOf(v, j) == (v - 1) * K + j

IndexAt(v, j) == skinIndex.array[SlotOf(v, j)]

WeightAt(v, j) == skinWeight.array[SlotOf(v, j)]

\* distance from vertex v to the bone with index b
DistanceOf(v, b) == DistanceTo(positions.array[v], bones[b + 1])

DistanceAt(v, j) == DistanceOf(v, IndexAt(v, j))

\* bone a is preferred to bone b for vertex v: closer, or as close and earlier
Preferred(v, a, b) ==
    \/ DistanceOf(v, a) < DistanceOf(v, b)
    \/ DistanceOf(v, a) = DistanceOf(v, b) /\ a < b

\* the arrays are complete: every vertex has its K slots in both
WellShaped ==
    /\ Skinned
    /\ skinWeight.itemSize = K
    /\ Len(skinIndex.array) = VertexCount * K
    /\ Len(skinWeight.array) = VertexCount * K

\* C1: with at least one bone, the k weights written for each vertex sum to 1
\* exactly.
SkinWeightsSumToOne ==
    (Skinned /\ BoneCount >= 1) =>
        /\ WellShaped
        /\ \A v \in Vertices :
               RatEq(RatSum([j \in 1..K |-> WeightAt(v, j)]), RatOne)

\* a vertex shares its weight among several bones at different distances
SkinWeightsSumWitness ==
    /\ WellShaped
    /\ BoneCount > K
    /\ K >= 3
    /\ \E v \in Vertices : \A i, j \in 1..K :
           i # j => DistanceAt(v, i) # DistanceAt(v, j)

\* C2: autoSkin with a skeleton without bones writes nothing: the skinIndex
\* and skinWeight attributes are neither created nor replaced.
EmptySkeletonIsNoOp ==
    [][BoneCount = 0 => UNCHANGED <<skinIndex, skinWeight>>]_vars

\* C3: the slots of a vertex hold the min(k, boneCount) closest bones, a bone
\* of lower index winning a tie, in that order.
ClosestBonesSelected ==
    (Skinned /\ BoneCount >= 1) =>
        /\ WellShaped
        /\ \A v \in Vertices :
               /\ \A j \in 1..Selected : IndexAt(v, j) \in 0..(BoneCount - 1)
               /\ \A i, j \in 1..Selected :
                      i < j => Preferred(v, IndexAt(v, i), IndexAt(v, j))
               /\ \A j \in 1..Selected : \A b \in 0..(BoneCount - 1) :
                      \/ \E i \in 1..Selected : IndexAt(v, i) = b
                      \/ Preferred(v, IndexAt(v, j), b)

\* a tie between a selected bone and a bone left out, and a tie between two
\* selected bones
ClosestBonesWitness ==
    /\ WellShaped
    /\ Selected < BoneCount
    /\ \E v \in Vertices :
           /\ \E b \in 0..(BoneCount - 1) :
                  /\ \A i \in 1..Selected : IndexAt(v, i) # b
                  /\ DistanceOf(v, b) = DistanceAt(v, Selected)
           /\ \E i, j \in 1..Selected :
                  i # j /\ DistanceAt(v, i) = DistanceAt(v, j)

\* C4: among the bones selected for a vertex, a bone that is not farther has
\* a weight that is not smaller.
WeightsMonotonicInDistance ==
    (Skinned /\ BoneCount >= 1) =>
        /\ WellShaped
        /\ \A v \in Vertices : \A i, j \in 1..Selected :
               DistanceAt(v, i) <= DistanceAt(v, j)
                   => RatLeq(WeightAt(v, j), WeightAt(v, i))

\* two selected bones at different distances, and two at the same distance
WeightsMonotonicWitness ==
    /\ WellShaped
    /\ \E v \in Vertices : \E i, j, l \in 1..Selected :
           /\ DistanceAt(v, i) < DistanceAt(v, j)
           /\ RatLess(WeightAt(v, j), WeightAt(v, i))
           /\ l # i /\ DistanceAt(v, l) = DistanceAt(v, i)

\* C5: after a call both arrays have vertexCount * k entries, vertex after
\* vertex, each vertex's selected bones in order of increasing distance from
\* that vertex, and with at least one bone every index is a bone's.
SkinOutputShape ==
    Skinned =>
        /\ WellShaped
        /\ K >= 1
        /\ BoneCount >= 1 =>
               /\ \A n \in 1..(VertexCount * K) :
                      skinIndex.array[n] \in 0..(BoneCount - 1)
               /\ \A v \in Vertices : \A j \in 1..(Selected - 1) :
                      DistanceAt(v, j) <= DistanceAt(v, j + 1)

\* two vertices whose closest bones differ, each with padded slots
SkinOutputShapeWitness ==
    /\ WellShaped
    /\ VertexCount = 2
    /\ BoneCount >= 2
    /\ BoneCount < K
    /\ IndexAt(1, 1) # IndexAt(2, 1)
    /\ DistanceAt(1, 1) < DistanceAt(1, 2)
    /\ DistanceAt(2, 1) < DistanceAt(2, 2)

\* C6: with fewer bones than k, the first boneCount slots of a vertex hold
\* the bones, each once with a positive weight, and every further slot holds
\* index 0 and weight 0.
SkinPadding ==
    (Skinned /\ 1 <= BoneCount /\ BoneCount < K) =>
        /\ WellShaped
        /\ \A v \in Vertices :
               /\ \A b \in 0..(BoneCount - 1) :
                      \E j \in 1..BoneCount :
                          IndexAt(v, j) = b /\ RatLess(RatZero, WeightAt(v, j))
               /\ \A j \in (BoneCount + 1)..K :
                      IndexAt(v, j) = 0 /\ WeightAt(v, j) = RatZero

\* padded slots after bones of which bone 0 is not the closest
SkinPaddingWitness ==
    /\ WellShaped
    /\ BoneCount >= 2
    /\ K >= BoneCount + 2
    /\ \E v \in Vertices : IndexAt(v, 1) # 0

\* 1 / (j + 0.001) for j = 1..4, over the common denominator
\* 1.001 * 2.001 * 3.001 * 4.001 (times 10^9 each)
InverseOf1234(j) ==
    LET den(l) == BigOfInt(l * MilliPerUnit + EPSILON)
        others == (1..4) \ {j}
        a == CHOOSE x \in others : \A y \in others : x <= y
        c == CHOOSE x \in others : \A y \in others : x >= y
        b == CHOOSE x \in others : x # a /\ x # c
    IN  BigMul(den(a), BigMul(den(b), den(c)))

\* C7: the weights of a vertex's selected bones are the normalized inverses
\* of distance + 0.001: weight * (distance + 0.001) is the same for all of
\* them and they sum to 1; bones at distances 1, 2, 3, 4 get decreasing
\* weights, the j-th being (1 / (j + 0.001)) over the sum of the four
\* inverses.
InverseDistanceWeights ==
    (Skinned /\ BoneCount >= 1) =>
        /\ WellShaped
        /\ \A v \in Vertices :
               /\ \A i, j \in 1..Selected :
                      BigMul(WeightAt(v, i)[1],
                             BigMul(BigOfInt(DistanceAt(v, i) + EPSILON),
                                    WeightAt(v, j)[2]))
                      = BigMul(WeightAt(v, j)[1],
                               BigMul(BigOfInt(DistanceAt(v, j) + EPSILON),
                                      WeightAt(v, i)[2]))
               /\ RatEq(RatSum([j \in 1..Selected |-> WeightAt(v, j)]), RatOne)
               /\ (Selected = 4 /\ \A j \in 1..4 :
                                      DistanceAt(v, j) = j * MilliPerUnit)
                      => /\ \A j \in 1..3 :
                                RatLess(WeightAt(v, j + 1), WeightAt(v, j))
                         /\ \A j \in 1..4 :
                                RatEq(WeightAt(v, j),
                                      <<InverseOf1234(j),
                                        BigAdd(BigAdd(InverseOf1234(1),
                                                      InverseOf1234(2)),
                                               BigAdd(InverseOf1234(3),
                                                      InverseOf1234(4)))>>)

\* four bones at distances 1, 2, 3, 4 from a vertex, given out of order
InverseDistanceWitness ==
    /\ WellShaped
    /\ Selected = 4
    /\ \E v \in Vertices :
           /\ \A j \in 1..4 : DistanceAt(v, j) = j * MilliPerUnit
           /\ IndexAt(v, 1) # 0
           /\ RatLess(WeightAt(v, 2), WeightAt(v, 1))

\* C8: with one bone, at the origin, and k = 4, every vertex gets the indices
\* 0, 0, 0, 0 and the weights 1, 0, 0, 0.
SingleBoneAtOrigin ==
    (Skinned /\ bones = <<Vec(0, 0, 0)>> /\ K = 4) =>
        /\ WellShaped
        /\ \A v \in Vertices :
               /\ \A j \in 1..4 : IndexAt(v, j) = 0
               /\ RatEq(WeightAt(v, 1), RatOne)
               /\ \A j \in 2..4 : RatEq(WeightAt(v, j), RatZero)

\* one vertex on the bone and one away from it
SingleBoneWitness ==
    /\ WellShaped
    /\ bones = <<Vec(0, 0, 0)>>
    /\ K = 4
    /\ \E v, w \in Vertices : DistanceOf(v, 0) = 0 /\ DistanceOf(w, 0) > 0

\* ------------------------------------------------------- PluginManager claims
\* C9: register(p) with p.id already in the registry rejects with
\* ALREADY_REGISTERED at once, without calling p.onInit, and leaves the
\* registry and the initialization order as they were.
RegisterDuplicateRejected ==
    [][\A c \in CallIds :
          (/\ calls[c].pc = "idle"
           /\ calls'[c].op = "register"
           /\ MapHas(plugins, calls'[c].pluginId))
          => /\ calls'[c].pc = "done"
             /\ calls'[c].result
                    = PluginError(IdOf(calls'[c].plugin), "ALREADY_REGISTERED",
                                  NoValue)
             /\ calls'[c].awaits = None
             /\ plugins' = plugins
             /\ initializationOrder' = initializationOrder]_vars

\* a second plugin object was refused under the id of a registered one
RegisterDuplicateWitness ==
    \E c \in CallIds :
        /\ calls[c].op = "register"
        /\ calls[c].pc = "done"
        /\ calls[c].result.code = "ALREADY_REGISTERED"
        /\ MapHas(plugins, calls[c].pluginId)
        /\ plugins[calls[c].pluginId] # calls[c].plugin
        /\ Len(initializationOrder) = 2

Ids(s) == {s[i] : i \in 1..Len(s)}

\* C11: unregister(id) of a registered id removes it when it resolves: has(id)
\* is false and id is absent from the initialization order, the call resolves
\* without throwing also when onDestroy rejected, and every other registered
\* plugin and the relative order of the others are unchanged.
UnregisterRemoves ==
    [][\A c \in CallIds :
          (/\ calls[c].pc \in {"awaitDestroy", "awaitDestroyOf"}
           /\ calls'[c].pc # calls[c].pc)
          => LET id == calls[c].pluginId
             IN  /\ ~MapHas(plugins', id)
                 /\ id \notin Ids(initializationOrder')
                 /\ calls[c].pc = "awaitDestroy"
                        => /\ calls'[c].pc = "done"
                           /\ calls'[c].result = Resolved
                 /\ \A x \in PluginIds \ {id} :
                        /\ MapHas(plugins', x) <=> MapHas(plugins, x)
                        /\ MapHas(plugins, x) => plugins'[x] = plugins[x]
                 /\ initializationOrder'
                        = SelectSeq(initializationOrder, LAMBDA x : x # id)]_vars

\* an unregister resolved although onDestroy rejected, the plugin is gone and
\* the other plugin is still registered
UnregisterRemovesWitness ==
    \E c \in CallIds :
        /\ calls[c].op = "unregister"
        /\ calls[c].pc = "done"
        /\ calls[c].settled.status = "rejected"
        /\ calls[c].result = Resolved
        /\ ~MapHas(plugins, calls[c].pluginId)
        /\ Len(initializationOrder) = 1
        /\ Ids(initializationOrder) = DOMAIN plugins

\* call c, a destroyAll, has moved in this step
DestroyAllMoves(c) ==
    /\ calls'[c].op = "destroyAll"
    /\ calls'[c] # calls[c]

\* C12: destroyAll walks the initialization order, which holds the ids in the
\* order their register calls completed, from its last id to its first, one
\* id per turn; a visited id that is registered has its plugin's onDestroy
\* invoked, and no onDestroy is invoked while the previous one is unsettled.
DestroyAllReverseOrder ==
    [][\A c \in CallIds :
          /\ (/\ calls[c].op = "register"
              /\ calls[c].pc = "awaitInit"
              /\ calls'[c].result = Resolved)
             => initializationOrder'
                    = Append(initializationOrder, calls[c].pluginId)
          /\ (/\ DestroyAllMoves(c)
              /\ calls[c].pc = "idle"
              /\ initializationOrder # <<>>)
             => LET n == Len(initializationOrder)
                IN  /\ calls'[c].pluginId = initializationOrder[n]
                    /\ Tail(calls'[c].order)
                           = [i \in 1..(n - 1) |-> initializationOrder[n - i]]
          /\ (/\ DestroyAllMoves(c)
              /\ calls[c].pc = "awaitUnregister"
              /\ Tail(calls[c].order) # <<>>)
             => /\ calls'[c].order = Tail(calls[c].order)
                /\ calls'[c].pluginId = Head(calls'[c].order)
          /\ (/\ DestroyAllMoves(c)
              /\ calls[c].pc \in {"idle", "awaitUnregister"}
              /\ calls'[c].pc # "done")
             => IF MapHas(plugins, calls'[c].pluginId)
                THEN /\ calls'[c].pc = "awaitDestroyOf"
                     /\ calls'[c].awaits = "onDestroy"
                     /\ calls'[c].plugin = plugins[calls'[c].pluginId]
                ELSE /\ calls'[c].pc = "awaitUnregister"
                     /\ calls'[c].awaits = None
          /\ (/\ DestroyAllMoves(c)
              /\ calls[c].pc = "awaitDestroyOf")
             => /\ calls'[c].pc = "awaitUnregister"
                /\ calls'[c].awaits = None
                /\ calls'[c].order = calls[c].order]_vars

\* destroyAll has invoked onDestroy of the plugin registered last, with the
\* plugin registered first still to come
DestroyAllReverseWitness ==
    \E c \in CallIds :
        /\ calls[c].op = "destroyAll"
        /\ calls[c].pc = "awaitDestroyOf"
        /\ Len(initializationOrder) = 2
        /\ initializationOrder[1] # initializationOrder[2]
        /\ calls[c].pluginId = initializationOrder[2]
        /\ calls[c].order = Reverse(initializationOrder)

\* C13: when destroyAll resolves the registry and the initialization order are
\* empty, and every plugin that leaves the registry at that point has had its
\* onDestroy invoked, also one registered while destroyAll was at an await.
DestroyAllDestroysEveryPlugin ==
    [][\A c \in CallIds :
          (/\ DestroyAllMoves(c)
           /\ calls'[c].pc = "done")
          => /\ plugins' = EmptyMap
             /\ initializationOrder' = <<>>
             /\ \A id \in DOMAIN plugins :
                    \E d \in CallIds :
                        /\ calls[d].awaits = "onDestroy"
                        /\ calls[d].plugin = plugins[id]]_vars

\* C20: the initialization order holds no id twice and its ids are the keys
\* of the registry map, whatever the interleaving of the calls.
RegistryConsistent ==
    /\ \A i, j \in 1..Len(initializationOrder) :
           initializationOrder[i] = initializationOrder[j] => i = j
    /\ Ids(initializationOrder) = DOMAIN plugins

\* call c of the plugin begins method op in this step
LifeBegins(c, op) ==
    /\ lifeCalls[c].pc = "idle"
    /\ lifeCalls'[c].op = op

\* call c of the plugin leaves its await at pc in this step
LifeResumes(c, pc) ==
    /\ lifeCalls[c].pc = pc
    /\ lifeCalls'[c].pc # pc

\* C14: onInit called in state 'uninitialized' sets 'initializing' and invokes
\* doInit, then sets 'ready' and returns if doInit resolves, or sets 'error'
\* and rethrows the error if doInit rejects; called in any other state it
\* returns without throwing, changing the state or invoking doInit; doInit is
\* invoked at most once.
OnInitLifecycle ==
    [][/\ doInitCalls' <= 1
       /\ \A c \in LifeCallIds :
          /\ LifeBegins(c, "onInit")
             => IF state = "uninitialized"
                THEN /\ state' = "initializing"
                     /\ lifeCalls'[c].pc = "awaitDoInit"
                     /\ doInitCalls' = doInitCalls + 1
                ELSE /\ state' = state
                     /\ lifeCalls'[c].pc = "done"
                     /\ lifeCalls'[c].result = Fulfilled
                     /\ doInitCalls' = doInitCalls
          /\ LifeResumes(c, "awaitDoInit")
             => /\ lifeCalls'[c].pc = "done"
                /\ doInitCalls' = doInitCalls
                /\ IF lifeCalls'[c].settled.status = "resolved"
                   THEN /\ state' = "ready"
                        /\ lifeCalls'[c].result = Fulfilled
                   ELSE /\ state' = "error"
                        /\ lifeCalls'[c].result.status = "rejected"
                        /\ lifeCalls'[c].result.value
                               = lifeCalls'[c].settled.value]_vars

\* an onInit failed with the error of doInit, and a second onInit returned
\* without invoking doInit again
OnInitLifecycleWitness ==
    /\ state = "error"
    /\ doInitCalls = 1
    /\ \E c, d \in LifeCallIds :
           /\ lifeCalls[c].op = "onInit"
           /\ lifeCalls[c].pc = "done"
           /\ lifeCalls[c].settled.status = "rejected"
           /\ lifeCalls[c].result = lifeCalls[c].settled
           /\ lifeCalls[d].op = "onInit"
           /\ lifeCalls[d].pc = "done"
           /\ lifeCalls[d].settled = Unsettled
           /\ lifeCalls[d].result = Fulfilled

\* C15: onDestroy leaves the state 'destroyed' when it ends, whether doDestroy
\* resolved or rejected, and a rejection goes on to the caller; called in
\* state 'destroyed' it returns without invoking doDestroy.
OnDestroyLifecycle ==
    [][\A c \in LifeCallIds :
          /\ LifeBegins(c, "onDestroy")
             => /\ state' = state
                /\ IF state = "destroyed"
                   THEN /\ lifeCalls'[c].pc = "done"
                        /\ lifeCalls'[c].result = Fulfilled
                   ELSE lifeCalls'[c].pc = "awaitDoDestroy"
          /\ LifeResumes(c, "awaitDoDestroy")
             => /\ state' = "destroyed"
                /\ lifeCalls'[c].pc = "done"
                /\ lifeCalls'[c].result = lifeCalls'[c].settled
                /\ lifeCalls'[c].settled \in Outcomes]_vars

\* an onDestroy passed on the rejection of doDestroy and left the plugin
\* destroyed, and a further onDestroy returned at once
OnDestroyLifecycleWitness ==
    /\ state = "destroyed"
    /\ \E c, d \in LifeCallIds :
           /\ lifeCalls[c].op = "onDestroy"
           /\ lifeCalls[c].pc = "done"
           /\ lifeCalls[c].result.status = "rejected"
           /\ lifeCalls[d].op = "onDestroy"
           /\ lifeCalls[d].pc = "done"
           /\ lifeCalls[d].settled = Unsettled
           /\ lifeCalls[d].result = Fulfilled

\* C16: generate, export, sync and exportFor* called while the state is not
\* 'ready' throw the not-ready error, do none of their work and leave the
\* state as it is; called while it is 'ready' they go on to their work.
ReadyGate ==
    [][\A c \in LifeCallIds, m \in GatedMethods :
          LifeBegins(c, m)
          => /\ state' = state
             /\ doInitCalls' = doInitCalls
             /\ IF state = "ready"
                THEN lifeCalls'[c].pc = "working"
                ELSE /\ lifeCalls'[c].pc = "done"
                     /\ lifeCalls'[c].settled = Unsettled
                     /\ lifeCalls'[c].result.status = "rejected"
                     /\ lifeCalls'[c].result.value = NotReadyError(state)]_vars

\* a gated method threw after a failed onInit
ReadyGateWitness ==
    /\ state = "error"
    /\ \E c, d \in LifeCallIds :
           /\ lifeCalls[c].op \in GatedMethods
           /\ lifeCalls[c].pc = "done"
           /\ lifeCalls[c].result = Rejected(NotReadyError("error"))
           /\ lifeCalls[d].op = "onInit"
           /\ lifeCalls[d].result.status = "rejected"

\* the edits that save the character to the history before changing it
HistoryEdits ==
    {"updatePart", "setPartColor", "setPartScale", "setPartMaterial",
     "setPartEmission", "setCharacterStyle", "setCharacter", "resetCharacter"}

\* C17: an undo() right after a history-recording edit that took the character
\* from A to B makes the current character A again, the first edit on a fresh
\* store included.
UndoRestoresEdit ==
    [][(/\ lastOp.op \in HistoryEdits
        /\ lastOp'.op = "undo")
       => character' = lastOp.before]_vars

\* C18: a redo() right after an undo() that changed the current character
\* from B to an earlier value makes the current character B again.
UndoRedoRoundTrip ==
    [][(/\ lastOp.op = "undo"
        /\ character # lastOp.before
        /\ lastOp'.op = "redo")
       => character' = lastOp.before]_vars

\* the names of HUMANOID_BONES with their first letter in upper case, the
\* style of the keys of UNITY_BONE_MAPPING
PascalCase ==
    [root |-> "Root", hips |-> "Hips", spine |-> "Spine", spine1 |-> "Spine1",
     spine2 |-> "Spine2", neck |-> "Neck", head |-> "Head",
     leftShoulder |-> "LeftShoulder", leftArm |-> "LeftArm",
     leftForeArm |-> "LeftForeArm", leftHand |-> "LeftHand",
     rightShoulder |-> "RightShoulder", rightArm |-> "RightArm",
     rightForeArm |-> "RightForeArm", rightHand |-> "RightHand",
     leftUpLeg |-> "LeftUpLeg", leftLeg |-> "LeftLeg",
     leftFoot |-> "LeftFoot", leftToeBase |-> "LeftToeBase",
     rightUpLeg |-> "RightUpLeg", rightLeg |-> "RightLeg",
     rightFoot |-> "RightFoot", rightToeBase |-> "RightToeBase"]

\* the humanoid bone `name` has a Unity Humanoid counterpart
HasUnityCounterpart(name) ==
    /\ name \in DOMAIN PascalCase
    /\ PascalCase[name] \in DOMAIN UNITY_BONE_MAPPING

\* C19: in the clone prepared for Unity every bone named as buildHumanoid
\* names it ('spine1', 'leftArm', 'leftUpLeg', ...) that has a Unity Humanoid
\* counterpart carries the Unity name (Chest, LeftUpperArm, LeftUpperLeg,
\* ...), and a humanoid bone without a counterpart keeps its name.
UnityRemapsHumanoidBones ==
    unityPc = "done"
    => \A i \in 1..Len(model) :
           (/\ model[i].isBone
            /\ model[i].name \in DOMAIN PascalCase)
           => /\ clone[i].isBone
              /\ clone[i].name
                     = IF HasUnityCounterpart(model[i].name)
                       THEN UNITY_BONE_MAPPING[PascalCase[model[i].name]]
                       ELSE model[i].name

\* C21: every preset id listed in a collection is the id of a stored preset,
\* and no collection lists an id twice.
PresetReferencesIntact ==
    \A i \in 1..Len(collections) :
        LET listed == collections[i][2].presets
        IN  /\ \A j \in 1..Len(listed) : EntryHas(presets, listed[j])
            /\ \A j, k \in 1..Len(listed) : listed[j] = listed[k] => j = k

=============================================================================
